---- MODULE Spec2Model ----
(***************************************************************************)
(* Connection-lifecycle manager of laundris-light-stack (src/main.go).     *)
(*                                                                         *)
(* Three kinds of process:                                                 *)
(*   - the supervisor: main() with handleMessages() inlined (handleMessages *)
(*     is called synchronously from main, so the two share one program     *)
(*     counter, supPc);                                                    *)
(*   - one keepAlive goroutine per dialled connection;                     *)
(*   - the environment: the remote peer, the network and the clock.        *)
(*                                                                         *)
(* A Session is the triple one iteration of main creates: the connection,  *)
(* the done channel and the keepAlive goroutine.  sess is the Session of   *)
(* the latest successful Dial.  main forgets a Session when it dials the   *)
(* next one, but a keepAlive goroutine that has not returned still holds   *)
(* its connection and its channel: those Sessions are kept in orphans.     *)
(*                                                                         *)
(* Time is discrete, one unit = one second.  Timers are kept as the time   *)
(* that remains (deadline - now), so SetReadDeadline(time.Now().Add(d))    *)
(* stores d and the clock action counts every running timer down.          *)
(* Goroutine steps are not bounded in time: the Go scheduler promises no   *)
(* latency, so any number of clock ticks may separate two steps.           *)
(* The ticker of keepAlive is kept as its channel: its period only spaces  *)
(* the ticks, and a tick may arrive whenever the ticker runs and the       *)
(* channel is empty, which covers every spacing.                           *)
(***************************************************************************)
EXTENDS Naturals, FiniteSets, Bags, TLC

(* ---- program constants (seconds) ---- *)
connectionReadLimit == 60
retryPause == 2

(* ---- bounds of the model ---- *)
\* keepAlive goroutines of earlier Sessions that may still be running when
\* main dials again (Dial does not succeed while that many are left)
MaxOrphans == 1
\* pong frames that can be in flight towards one connection
MaxPongs == 1

NoDeadline == connectionReadLimit + 1   \* the zero time.Time: no deadline armed

(* ---- Command and its JSON decoding ---- *)
DeviceIDs == {"A1"}
Modes == {"auto"}
\* a device id that makes the request URL unparsable (a bad % escape)
BadEscape == "%zz"

\* type Command struct, with Go's zero values
ZeroCommand == [DeviceID |-> "", Mode |-> "", TurnOn |-> FALSE]

\* the json tags of the three fields of Command
TagDeviceID == "device_id"
TagMode == "mode"
TagTurnOn == "turnOn"

\* Text frames the peer may send, each a function from its keys to values:
\* JSON objects, and one payload that is not JSON of the shape of a Command
\* (json.Unmarshal returns an error for it)
Garbage == [garbage |-> TRUE]
WireObjects ==
    { [device_id |-> d, mode |-> m, turn_on |-> t] :
          d \in DeviceIDs, m \in Modes, t \in BOOLEAN }
    \cup { [device_id |-> d, mode |-> m, turnOn |-> TRUE] :
          d \in DeviceIDs, m \in Modes }
    \cup { [device_id |-> BadEscape, mode |-> m, turn_on |-> FALSE] : m \in Modes }
WireFrames == WireObjects \cup {Garbage}

Decodable(f) == f # Garbage

\* json.Unmarshal into a zeroed Command: a field is set from the key that
\* equals its tag, keys without a field are ignored, absent keys leave the
\* zero value
Field(obj, tag, zero) == IF tag \in DOMAIN obj THEN obj[tag] ELSE zero
Decode(obj) ==
    [DeviceID |-> Field(obj, TagDeviceID, ""),
     Mode     |-> Field(obj, TagMode, ""),
     TurnOn   |-> Field(obj, TagTurnOn, FALSE)]

\* sendHTTPRequest's URL: path parameter and query parameters
ApiURL(c) == [device |-> c.DeviceID, mode |-> c.Mode, turnOn |-> c.TurnOn]
\* no request issued yet
NoRequest == [device |-> "-", mode |-> "-", turnOn |-> FALSE]

(* ---- state ---- *)
VARIABLES
    supPc,     \* position of main/handleMessages ("dead": the process is gone)
    sleepLeft, \* time left of the time.Sleep the supervisor is in
    sess,      \* the Session of the latest successful Dial, a record of
               \*   conn:  "none" | "open" | "closed" (closed by conn.Close())
               \*   link:  "up" | "down": the peer and the network behind conn
               \*   pongs: pong frames in flight towards conn
               \*   done:  "none" | "open" | "closed" | "panic" (closed twice)
               \*   monPc: position of the keepAlive goroutine
               \*   tickC: ticker.C (capacity 1) holds a tick
    orphans,   \* bag of the earlier Sessions whose keepAlive still runs
    deadline,  \* read deadline of sess.conn (time left), or NoDeadline
    cmd,       \* handleMessages' cmd
    err,       \* the err of the last Dial / ReadJSON / sendHTTPRequest
    request    \* the request sendHTTPRequest has in flight, or NoRequest

vars == <<supPc, sleepLeft, sess, orphans, deadline, cmd, err, request>>

supVars == <<supPc, sleepLeft, deadline, cmd, err, request>>

Sessions ==
    [conn : {"none", "open", "closed"}, link : {"up", "down"},
     pongs : 0..MaxPongs, done : {"none", "open", "closed", "panic"},
     monPc : {"none", "start", "select", "write", "stopped"}, tickC : BOOLEAN]

\* before the first Dial
NoSession ==
    [conn |-> "none", link |-> "down", pongs |-> 0, done |-> "none",
     monPc |-> "none", tickC |-> FALSE]

\* the keepAlive goroutine of Session r has been started and has not returned
Running(r) == r.monPc \in {"start", "select", "write"}

\* the Sessions an orphan can be: main leaves a Session only after
\* handleMessages has returned, that is, closed and with done closed
OrphanKinds ==
    {r \in Sessions : /\ Running(r)
                      /\ r.conn = "closed" /\ r.link = "down" /\ r.pongs = 0
                      /\ r.done = "closed"}

TypeOK ==
    /\ supPc \in {"dial", "backoff", "spawn", "arm", "read", "dispatch",
                  "await", "logged", "closeConn", "closeDone", "sleep", "dead"}
    /\ sleepLeft \in 0..retryPause
    /\ sess \in Sessions
    /\ IsABag(orphans)
    /\ BagToSet(orphans) \subseteq OrphanKinds
    /\ BagCardinality(orphans) <= MaxOrphans
    /\ deadline \in 0..NoDeadline
    /\ cmd \in {ZeroCommand} \cup {Decode(o) : o \in WireObjects}
    /\ err \in {"nil", "dial", "read:timeout", "read:decode", "read:closed",
                "http:request", "http:transport", "http:status"}
    /\ request \in {NoRequest} \cup {ApiURL(Decode(o)) : o \in WireObjects}

Init ==
    /\ supPc = "dial"
    /\ sleepLeft = 0
    /\ sess = NoSession
    /\ orphans = EmptyBag
    /\ deadline = NoDeadline
    /\ cmd = ZeroCommand
    /\ err = "nil"
    /\ request = NoRequest

(* ---- supervisor: main ---- *)

\* main, lines 30-35: Dial fails; log, time.Sleep(2s), continue
DialFail ==
    /\ supPc = "dial"
    /\ supPc' = "backoff"
    /\ sleepLeft' = retryPause
    /\ err' = "dial"
    /\ UNCHANGED <<sess, orphans, deadline, cmd, request>>

\* mutant: a failed Dial is fatal once its pause is over
BackoffDoneExit ==
    /\ supPc = "backoff"
    /\ sleepLeft = 0
    /\ supPc' = "dead"
    /\ UNCHANGED <<sleepLeft, sess, orphans, deadline, cmd, err, request>>

\* main, line 33: the Sleep after a failed Dial is over; next iteration
BackoffDone ==
    /\ supPc = "backoff"
    /\ sleepLeft = 0
    /\ supPc' = "dial"
    /\ UNCHANGED <<sleepLeft, sess, orphans, deadline, cmd, err, request>>

\* main, line 30: conn is assigned anew; the Session of the iteration before
\* lives on only as long as its keepAlive goroutine runs
Left(r) == IF Running(r) THEN SetToBag({r}) ELSE EmptyBag

\* what Dial returns on success: an open connection; no done channel and no
\* goroutine yet
NewSession ==
    [conn |-> "open", link |-> "up", pongs |-> 0, done |-> "none",
     monPc |-> "none", tickC |-> FALSE]

\* main, lines 30, 37: Dial succeeds: a fresh open connection, no deadline set
DialOk ==
    /\ supPc = "dial"
    /\ BagCardinality(orphans (+) Left(sess)) <= MaxOrphans
    /\ orphans' = orphans (+) Left(sess)
    /\ sess' = NewSession
    /\ deadline' = NoDeadline
    /\ err' = "nil"
    /\ supPc' = "spawn"
    /\ UNCHANGED <<sleepLeft, cmd, request>>

\* main, lines 40-41: done := make(chan struct{}); go keepAlive(conn, done)
Spawn ==
    /\ supPc = "spawn"
    /\ sess' = [sess EXCEPT !.done = "open", !.monPc = "start"]
    /\ supPc' = "arm"
    /\ UNCHANGED <<sleepLeft, orphans, deadline, cmd, err, request>>

\* main, lines 44-51: handleMessages has returned; log, time.Sleep(2s) is over
SleepDone ==
    /\ supPc = "sleep"
    /\ sleepLeft = 0
    /\ supPc' = "dial"
    /\ UNCHANGED <<sleepLeft, sess, orphans, deadline, cmd, err, request>>

(* ---- supervisor: handleMessages ---- *)

\* conn.SetReadDeadline(time.Now().Add(connectionReadLimit))
ArmedDeadline == connectionReadLimit

\* the read deadline has passed: a read on the connection fails with a timeout
Expired == deadline = 0

\* a frame can arrive on the connection and be read
Readable == sess.conn = "open" /\ sess.link = "up" /\ ~Expired

\* lines 60-65: arm the read deadline, install the pong handler
Arm ==
    /\ supPc = "arm"
    /\ deadline' = ArmedDeadline
    /\ supPc' = "read"
    /\ UNCHANGED <<sleepLeft, sess, orphans, cmd, err, request>>

\* mutant: no pong handler is installed (the default one leaves the deadline)
RecvPongNoRearm ==
    /\ supPc = "read"
    /\ Readable
    /\ sess.pongs > 0
    /\ sess' = [sess EXCEPT !.pongs = @ - 1]
    /\ UNCHANGED <<supPc, sleepLeft, orphans, deadline, cmd, err, request>>

\* lines 61-65: inside ReadJSON a pong control frame arrives; the pong handler
\* re-arms the deadline and the read goes on waiting
RecvPong ==
    /\ supPc = "read"
    /\ Readable
    /\ sess.pongs > 0
    /\ sess' = [sess EXCEPT !.pongs = @ - 1]
    /\ deadline' = ArmedDeadline
    /\ UNCHANGED <<supPc, sleepLeft, orphans, cmd, err, request>>

\* the read deadline after ReadJSON returned a message (the code leaves it)
DeadlineAfterRead == deadline

\* lines 68-76: ReadJSON returns text frame o, which decodes into cmd
ReadOk(o) ==
    /\ supPc = "read"
    /\ Readable
    /\ Decodable(o)
    /\ cmd' = Decode(o)
    /\ err' = "nil"
    /\ deadline' = DeadlineAfterRead
    /\ supPc' = "dispatch"
    /\ UNCHANGED <<sleepLeft, sess, orphans, request>>

\* lines 71-74: ReadJSON fails; handleMessages returns the error, which runs
\* the deferred calls
ReadFail(e) ==
    /\ supPc = "read"
    /\ err' = e
    /\ supPc' = "closeConn"
    /\ UNCHANGED <<sleepLeft, sess, orphans, deadline, cmd, request>>

\* the frame is no Command: json decode error
ReadDecodeErr(f) ==
    /\ Readable
    /\ ~Decodable(f)
    /\ ReadFail("read:decode")

\* mutant: a timeout is taken for a transient error and the read is retried
ReadTimeoutRetry ==
    /\ supPc = "read"
    /\ Expired
    /\ err' = "read:timeout"
    /\ UNCHANGED <<supPc, sleepLeft, sess, orphans, deadline, cmd, request>>

\* the read deadline has passed
ReadTimeout ==
    /\ Expired
    /\ ReadFail("read:timeout")

\* the peer closed the connection or the network dropped it
ReadClosed ==
    /\ sess.link = "down"
    /\ ReadFail("read:closed")

\* http.NewRequest accepts the URL (it rejects one it cannot parse)
ValidURL(u) == u.device # BadEscape

\* mutant: the request is sent from a goroutine of its own (go
\* sendHTTPRequest(cmd)) and the read loop goes on at once
SendRequestAsync ==
    /\ supPc = "dispatch"
    /\ request' = ApiURL(cmd)
    /\ supPc' = "logged"
    /\ UNCHANGED <<sleepLeft, sess, orphans, deadline, cmd, err>>

\* lines 79, 111-126: sendHTTPRequest builds the URL and the request and
\* sends it; a URL that NewRequest rejects makes it return at once
SendRequest ==
    /\ supPc = "dispatch"
    /\ IF ValidURL(ApiURL(cmd))
         THEN request' = ApiURL(cmd) /\ err' = err /\ supPc' = "await"
         ELSE request' = request /\ err' = "http:request" /\ supPc' = "logged"
    /\ UNCHANGED <<sleepLeft, sess, orphans, deadline, cmd>>

\* the outcomes of client.Do and of the status check
HTTPResults == {"nil", "http:transport", "http:status"}

\* lines 126-139, 79-82: client.Do returns; a transport error or a status
\* other than 200 is the error of sendHTTPRequest, which line 81 logs
Response(e) ==
    /\ supPc = "await"
    /\ request' = NoRequest
    /\ err' = e
    /\ supPc' = "logged"
    /\ UNCHANGED <<sleepLeft, sess, orphans, deadline, cmd>>

\* mutant: an error of sendHTTPRequest is returned from handleMessages
AfterDispatchAbort(e) == IF e = "nil" THEN "read" ELSE "closeConn"

\* mutant: a Command whose dispatch failed is handed to sendHTTPRequest again
AfterDispatchRetry(e) == IF e = "nil" THEN "read" ELSE "dispatch"

\* where the read loop goes after sendHTTPRequest returned e: line 83, the
\* end of the loop body, whatever e is
AfterDispatch(e) == "read"

\* lines 83, 67-68: next iteration, with a fresh cmd and err
LoopAgain ==
    /\ supPc = "logged"
    /\ supPc' = AfterDispatch(err)
    /\ cmd' = ZeroCommand
    /\ err' = IF AfterDispatch(err) = "read" THEN "nil" ELSE err
    /\ UNCHANGED <<sleepLeft, sess, orphans, deadline, request>>

\* mutant: the connection is never closed
CloseConnSkip ==
    /\ supPc = "closeConn"
    /\ supPc' = "closeDone"
    /\ UNCHANGED <<sleepLeft, sess, orphans, deadline, cmd, err, request>>

\* line 57, run first (defers run last-in first-out): conn.Close(); the
\* connection and with it its deadline are gone
CloseConn ==
    /\ supPc = "closeConn"
    /\ sess' = [sess EXCEPT !.conn = "closed", !.link = "down", !.pongs = 0]
    /\ deadline' = NoDeadline
    /\ supPc' = "closeDone"
    /\ UNCHANGED <<sleepLeft, orphans, cmd, err, request>>

\* mutant: done is never closed
CloseChanForgot(ch) == ch

\* close(ch) in Go: closing a closed channel panics
CloseChan(ch) == IF ch = "open" THEN "closed" ELSE "panic"

\* mutant: main gives up when handleMessages returns its error
CloseDoneFatal ==
    /\ supPc = "closeDone"
    /\ sess' = [sess EXCEPT !.done = "closed"]
    /\ supPc' = "dead"
    /\ UNCHANGED <<sleepLeft, orphans, deadline, cmd, err, request>>

\* mutant: the stop signal is a send on the unbuffered channel (done <- x),
\* which waits for keepAlive to receive it in its select
CloseDoneSend ==
    /\ supPc = "closeDone"
    /\ sess.monPc = "select"
    /\ sess' = [sess EXCEPT !.monPc = "stopped", !.tickC = FALSE]
    /\ supPc' = "sleep"
    /\ sleepLeft' = retryPause
    /\ UNCHANGED <<orphans, deadline, cmd, err, request>>

\* line 56, run second: close(done); then back in main, lines 45-50
CloseDone ==
    /\ supPc = "closeDone"
    /\ sess' = [sess EXCEPT !.done = CloseChan(@)]
    /\ IF CloseChan(sess.done) = "panic"
         THEN supPc' = "dead" /\ sleepLeft' = sleepLeft
         ELSE supPc' = "sleep" /\ sleepLeft' = retryPause
    /\ UNCHANGED <<orphans, deadline, cmd, err, request>>

(* ---- keepAlive goroutines ---- *)

\* A keepAlive goroutine is named by the Session it holds: the latest one, or
\* one of the orphans.
Latest == [latest |-> TRUE, s |-> sess]
Orphan(o) == [latest |-> FALSE, s |-> o]
Holders == {Latest} \cup {Orphan(o) : o \in BagToSet(orphans)}

\* the Session of goroutine w becomes r; an orphan whose goroutine has
\* returned is referred to by nothing any more
Put(w, r) ==
    IF w.latest
      THEN sess' = r /\ orphans' = orphans
      ELSE sess' = sess /\ orphans' = (orphans (-) SetToBag({w.s})) (+) Left(r)

\* lines 88-89: ticker := time.NewTicker(keepAliveInterval)
MonStart(w) ==
    /\ w.s.monPc = "start"
    /\ Put(w, [w.s EXCEPT !.tickC = FALSE, !.monPc = "select"])
    /\ UNCHANGED supVars

\* return from keepAlive: the deferred ticker.Stop()
Returned(r) == [r EXCEPT !.monPc = "stopped", !.tickC = FALSE]

\* mutant: keepAlive goes on with its loop when done is closed
MonSelectDoneContinue(w) ==
    /\ w.s.monPc = "select"
    /\ w.s.done = "closed"
    /\ Put(w, w.s)
    /\ UNCHANGED supVars

\* lines 92-95: select takes case <-done (ready once done is closed)
MonSelectDone(w) ==
    /\ w.s.monPc = "select"
    /\ w.s.done = "closed"
    /\ Put(w, Returned(w.s))
    /\ UNCHANGED supVars

\* may select take the ticker case?  Go's select picks among the ready cases
\* at random, so a closed done does not keep it from taking a pending tick
TickSelectable(r) == r.tickC

\* lines 92, 96: select takes case <-ticker.C
MonSelectTick(w) ==
    /\ w.s.monPc = "select"
    /\ TickSelectable(w.s)
    /\ Put(w, [w.s EXCEPT !.tickC = FALSE, !.monPc = "write"])
    /\ UNCHANGED supVars

\* conn.WriteMessage can write: the connection is not closed and the link is up
Writable(r) == r.conn = "open" /\ r.link = "up"

\* lines 98, 103: the ping is written; the peer may answer it with a pong
MonWriteOk(w) ==
    /\ w.s.monPc = "write"
    /\ Writable(w.s)
    /\ \E n \in {w.s.pongs, IF w.s.pongs < MaxPongs THEN w.s.pongs + 1 ELSE MaxPongs} :
           Put(w, [w.s EXCEPT !.pongs = n, !.monPc = "select"])
    /\ UNCHANGED supVars

\* mutant: keepAlive closes the connection itself when its write fails
MonWriteFailClose(w) ==
    /\ w.s.monPc = "write"
    /\ ~Writable(w.s)
    /\ Put(w, [Returned(w.s) EXCEPT !.conn = "closed", !.link = "down",
                                     !.pongs = 0])
    /\ UNCHANGED supVars

\* lines 98-102: the write fails; log and return
MonWriteFail(w) ==
    /\ w.s.monPc = "write"
    /\ ~Writable(w.s)
    /\ Put(w, Returned(w.s))
    /\ UNCHANGED supVars

(* ---- environment ---- *)

\* the ticker of a running keepAlive fires: a tick goes into its channel
\* (the runtime drops the tick when the channel still holds one)
TickerFire(w) ==
    /\ w.s.monPc \in {"select", "write"}
    /\ ~w.s.tickC
    /\ Put(w, [w.s EXCEPT !.tickC = TRUE])
    /\ UNCHANGED supVars

\* the peer closes the connection, or the network drops it
PeerClose(w) ==
    /\ w.s.conn = "open" /\ w.s.link = "up"
    /\ Put(w, [w.s EXCEPT !.link = "down", !.pongs = 0])
    /\ UNCHANGED supVars

Dec(n) == IF n > 0 THEN n - 1 ELSE 0

\* one second passes: the running timers (the Sleep of main, the read
\* deadline) count down
Tick ==
    /\ sleepLeft' = Dec(sleepLeft)
    /\ deadline' = IF deadline = NoDeadline THEN NoDeadline ELSE Dec(deadline)
    /\ UNCHANGED <<supPc, sess, orphans, cmd, err, request>>

Next ==
    \/ DialFail
    \/ BackoffDone
    \/ DialOk
    \/ Spawn
    \/ Arm
    \/ RecvPong
    \/ \E f \in WireFrames : ReadOk(f)
    \/ \E f \in WireFrames : ReadDecodeErr(f)
    \/ ReadTimeout
    \/ ReadClosed
    \/ SendRequest
    \/ \E e \in HTTPResults : Response(e)
    \/ LoopAgain
    \/ CloseConn
    \/ CloseDone
    \/ SleepDone
    \/ \E w \in Holders : MonStart(w)
    \/ \E w \in Holders : MonSelectDone(w)
    \/ \E w \in Holders : MonSelectTick(w)
    \/ \E w \in Holders : MonWriteOk(w)
    \/ \E w \in Holders : MonWriteFail(w)
    \/ \E w \in Holders : TickerFire(w)
    \/ \E w \in Holders : PeerClose(w)
    \/ Tick

Spec == Init /\ [][Next]_vars

\* Scheduling: the clock advances; a goroutine that can take a step of its own
\* code takes it (Dial, Sleep, the deferred calls and a read that has failed
\* return; the select and the write of keepAlive return).  Nothing is
\* promised about the peer, the ticker or the local service: the peer need
\* not send, answer or close, and a request need not be answered.
SupStep ==
    \/ DialFail
    \/ BackoffDone
    \/ DialOk
    \/ Spawn
    \/ Arm
    \/ ReadTimeout
    \/ ReadClosed
    \/ SendRequest
    \/ LoopAgain
    \/ CloseConn
    \/ CloseDone
    \/ SleepDone

MonStep(w) ==
    \/ MonStart(w)
    \/ MonSelectDone(w)
    \/ MonSelectTick(w)
    \/ MonWriteOk(w)
    \/ MonWriteFail(w)

LiveSpec ==
    /\ Spec
    /\ WF_vars(Tick)
    /\ WF_vars(SupStep)
    /\ WF_vars(MonStep(Latest))
    /\ \A k \in OrphanKinds : WF_vars(BagIn(k, orphans) /\ MonStep(Orphan(k)))

(* ---- claims ---- *)

AllSessions == {sess} \cup BagToSet(orphans)
ReadErrors == {"read:timeout", "read:decode", "read:closed"}
DispatchErrors == {"http:request", "http:transport", "http:status"}

\* the orphans that are in S, as a bag
Only(S) == [o \in BagToSet(orphans) \cap S |-> orphans[o]]

\* the number of Sessions (the latest and the orphans) that are in S
HowMany(S) == (IF sess \in S THEN 1 ELSE 0) + BagCardinality(Only(S))

\* the Sessions whose done is closed and whose keepAlive is at pc
StoppedAt(pc) == {r \in Sessions : r.done = "closed" /\ r.monPc = pc}

\* C1: whenever the transport of a Session has been closed, the keepAlive
\* goroutine bound to that Session has already returned.
C1_MonitorStoppedBeforeClose ==
    \A r \in AllSessions : r.conn = "closed" => ~Running(r)

\* C2: a successful ReadJSON re-arms the read deadline to now +
\* connectionReadLimit (so steady Commands without pongs never time out).
C2_ReadRearmsDeadline ==
    [][(supPc = "read" /\ supPc' = "dispatch") => deadline' = connectionReadLimit]_vars

\* C3: once done is closed, the select of keepAlive does not take the ticker
\* case any more: no keepAlive whose done is closed moves from its select to
\* the probe write, even with a tick pending.
C3_NoProbeAfterStop ==
    [][~ /\ HowMany(StoppedAt("select")) = HowMany(StoppedAt("select"))' + 1
         /\ HowMany(StoppedAt("write"))' = HowMany(StoppedAt("write")) + 1]_vars

\* C4: every dial failure is followed by the fixed pause and then by another
\* dial: the pause is not left before it has elapsed, a failed dial leads
\* nowhere but into the pause, and from the pause the supervisor always gets
\* back to dialling, without end.
C4_RetryForever ==
    /\ [][/\ (supPc = "backoff" /\ supPc' # "backoff")
                => (supPc' = "dial" /\ sleepLeft = 0)
          /\ (supPc = "dial" /\ supPc' \notin {"dial", "spawn"})
                => (supPc' = "backoff" /\ sleepLeft' = retryPause)]_vars
    /\ (supPc = "backoff") ~> (supPc = "dial")

\* C4 witness: a dial has failed and its pause has elapsed
C4_Witness == supPc = "backoff" /\ err = "dial" /\ sleepLeft = 0

\* C5: a ReadError of any kind ends that Session and nothing else: the
\* supervisor gets back to dialling, with the Session closed and done closed.
C5_ReadErrorReconnects ==
    (supPc = "closeConn" /\ err \in ReadErrors)
        ~> (supPc = "dial" /\ sess.conn = "closed" /\ sess.done = "closed")

\* C5 witness: a malformed frame has torn the Session down
C5_Witness ==
    supPc = "sleep" /\ err = "read:decode" /\ sess.conn = "closed"
        /\ sess.done = "closed"

\* C6: after sendHTTPRequest returned an error the read loop goes on to the
\* next ReadJSON with the Session open and done not closed, and a Command
\* read next goes to dispatch.
C6_DispatchErrorNotFatal ==
    [][/\ (supPc = "logged" /\ err \in DispatchErrors /\ supPc' # "logged")
            => (supPc' = "read" /\ sess'.conn = "open" /\ sess'.done = "open")
       /\ (supPc = "read" /\ cmd' # cmd) => supPc' = "dispatch"]_vars

\* C6 witness: the local service answered with a status other than 200
C6_Witness == supPc = "logged" /\ err = "http:status" /\ sess.conn = "open"

\* C7: done is closed exactly once per Session: never twice, closed when
\* handleMessages has returned, and not closed before the read loop is over.
C7_DoneClosedOnce ==
    /\ \A r \in AllSessions : r.done # "panic"
    /\ supPc = "sleep" => sess.done = "closed"
    /\ supPc \in {"arm", "read", "dispatch", "await", "logged", "closeConn",
                   "closeDone"} => sess.done = "open"

\* C7 witness: a Session has ended with a timeout and its done is closed
C7_Witness == supPc = "sleep" /\ err = "read:timeout" /\ sess.done = "closed"

\* C8: at most one connection is open at any time, and none while dialling.
C8_OneSessionOpen ==
    /\ HowMany({r \in Sessions : r.conn = "open"}) <= 1
    /\ supPc \in {"dial", "backoff"} => \A r \in AllSessions : r.conn # "open"

\* C8 witness: a new Session is open while the previous one, closed, is
\* still held by its goroutine
C8_Witness ==
    sess.conn = "open" /\ \E o \in BagToSet(orphans) : o.conn = "closed"

\* C9: when the supervisor dials, the keepAlive goroutine of the previous
\* Session has returned, so at most one keepAlive goroutine runs at a time.
C9_OneMonitorRunning ==
    /\ supPc = "dial" => \A r \in AllSessions : ~Running(r)
    /\ HowMany({r \in Sessions : Running(r)}) <= 1

\* C10: with the read deadline passed on a link that is up, the pending
\* ReadJSON returns nothing but a timeout, which ends the read loop; and it
\* does return.
C10_SilenceTimesOut ==
    /\ [][(supPc = "read" /\ deadline = 0 /\ sess.link = "up" /\ supPc' # "read")
            => (supPc' = "closeConn" /\ err' = "read:timeout")]_vars
    /\ (supPc = "read" /\ deadline = 0) ~> (supPc = "closeConn")

\* C10 witness: the read loop has ended with a timeout
C10_Witness == supPc = "closeConn" /\ err = "read:timeout" /\ sess.link = "up"

\* C11: every pong the read loop processes on an open Session sets the read
\* deadline to now + connectionReadLimit, and an armed deadline runs down by
\* one second per second and in no other way: it expires only
\* connectionReadLimit seconds after the last pong was processed, so pongs
\* processed at shorter intervals keep it from expiring.
C11_PongRearmsDeadline ==
    [][/\ (supPc = "read" /\ sess.conn = "open" /\ sess'.link = "up"
             /\ sess'.pongs < sess.pongs)
            => (deadline' = connectionReadLimit /\ supPc' = "read")
       /\ (deadline \in 1..connectionReadLimit /\ deadline' < deadline)
            => (deadline' = deadline - 1 /\ sess'.pongs = sess.pongs)]_vars

\* C11 witness: a pong reaches a read that has one second of its deadline left
C11_Witness ==
    supPc = "read" /\ Readable /\ sess.pongs > 0 /\ deadline = 1

\* C12: the request that is dispatched carries exactly the device_id, mode and
\* turn_on values of the wire message: a frame read with those three keys
\* decodes into a Command of those values, and the request sent for a Command
\* targets its device with its mode and its turnOn.  In particular
\* device_id = "A1", mode = "auto", turn_on = true gives a request to A1 with
\* mode=auto and turnOn=true.
C12_WireToRequest ==
    [][/\ \A f \in WireObjects :
              (ReadOk(f) /\ "turn_on" \in DOMAIN f)
                 => cmd' = [DeviceID |-> f.device_id, Mode |-> f.mode,
                            TurnOn |-> f.turn_on]
       /\ (supPc = "dispatch" /\ supPc' = "await")
            => request' = [device |-> cmd.DeviceID, mode |-> cmd.Mode,
                           turnOn |-> cmd.TurnOn]]_vars

\* C13: each Command the read loop decodes is handed to sendHTTPRequest
\* exactly once.  Never zero times: a decoded Command goes nowhere but into
\* sendHTTPRequest, unchanged, and it does go there.  Never more than once:
\* sendHTTPRequest is entered only from a ReadJSON that has just decoded a
\* new Command (not again after an error, not after a reconnect).  A frame
\* that fails to decode ends the read loop with no request made.
C13_DispatchedExactlyOnce ==
    /\ [][/\ (supPc = "dispatch" /\ supPc' # "dispatch")
                => /\ supPc' \in {"await", "logged"}
                   /\ cmd' = cmd
                   /\ supPc' = "await" => request' = ApiURL(cmd)
          /\ (supPc # "dispatch" /\ supPc' = "dispatch")
                => (supPc = "read" /\ cmd' # cmd /\ err' = "nil")
          /\ (supPc = "read" /\ err' = "read:decode")
                => (supPc' = "closeConn" /\ cmd' = cmd /\ request' = request)]_vars
    /\ (supPc = "dispatch") ~> (supPc \in {"await", "logged"})

\* C13 witness: a Command has been handed over and answered with success
C13_Witness == supPc = "logged" /\ err = "nil" /\ cmd.DeviceID = "A1"

\* C14: a Session whose keepAlive has returned because a probe write failed
\* (the goroutine is gone while done is still open) does not stay connected
\* for ever: the read loop fails, the Session is torn down and the supervisor
\* gets back to dialling.
C14_TornDownAfterProbeFailure ==
    (sess.monPc = "stopped" /\ sess.conn = "open" /\ sess.done = "open")
        ~> (supPc = "dial" /\ sess.conn = "closed" /\ sess.done = "closed")

\* the Sessions whose keepAlive is at pc
AtPc(pc) == {r \in Sessions : r.monPc = pc}

\* C15: a failed probe write changes the monitor and nothing else.  The step
\* in which a keepAlive leaves its write without going back to its select
\* stops exactly that goroutine: main and handleMessages stay where they
\* are (position, deadline, cmd, err, request), the latest Session keeps its
\* connection, its link, its pongs and its done as they were, no done of any
\* other Session changes, and no goroutine is started.
C15_ProbeFailureStopsMonitorOnly ==
    [][(/\ HowMany(AtPc("write"))' = HowMany(AtPc("write")) - 1
        /\ HowMany(AtPc("select"))' = HowMany(AtPc("select")))
        => /\ UNCHANGED supVars
           /\ [sess' EXCEPT !.monPc = sess.monPc, !.tickC = sess.tickC] = sess
           /\ sess'.monPc \in {sess.monPc, "stopped"}
           /\ \A o \in BagToSet(orphans') :
                  CopiesIn(o, orphans') <= CopiesIn(o, orphans)
           /\ HowMany({r \in Sessions : Running(r)})'
                  = HowMany({r \in Sessions : Running(r)}) - 1
           /\ HowMany(AtPc("start"))' = HowMany(AtPc("start"))]_vars

\* C15 witness: the keepAlive of the Session being read has returned after a
\* failed write; the Session is open and done is not closed
C15_Witness ==
    /\ supPc = "read"
    /\ sess.monPc = "stopped" /\ sess.conn = "open" /\ sess.done = "open"

\* C16: after a successful Dial the read deadline is armed first, keepAlive
\* is started second and the read loop is entered third: no keepAlive runs
\* on an open Session whose deadline has not been armed, and the read loop
\* runs only on a Session whose keepAlive has been started.
C16_ArmThenMonitorThenRead ==
    /\ (sess.conn = "open" /\ Running(sess)) => deadline # NoDeadline
    /\ supPc \in {"read", "dispatch", "await", "logged"} => sess.monPc # "none"

\* C17: teardown never blocks the supervisor.  Wherever keepAlive is (not
\* yet at its select, waiting in it, in the middle of a probe write, or
\* returned after a failed write), close(done) can be executed at once, it
\* completes without a step of keepAlive, and the supervisor gets from it
\* to the next Dial.
C17_TeardownNeverBlocks ==
    /\ [](supPc = "closeDone" => ENABLED CloseDone)
    /\ [][(supPc = "closeDone" /\ supPc' # "closeDone")
            => (supPc' = "sleep" /\ sess'.monPc = sess.monPc)]_vars
    /\ (supPc = "closeDone" /\ sess.monPc \in {"start", "select", "write", "stopped"})
           ~> (supPc = "dial" /\ sess.done = "closed")

\* C17 witness: the supervisor is back at Dial, done closed, while keepAlive
\* of that Session is still in the middle of a probe write
C17_Witness == supPc = "dial" /\ sess.done = "closed" /\ sess.monPc = "write"

\* C18: no keepAlive goroutine is leaked.  Under fair scheduling the
\* keepAlive of the latest Session does not go on running for ever once its
\* done is closed: it returns, or main dials again and it lives on among the
\* orphans.  And the orphans do not stay: time and again there is none, or
\* time and again one of them returns (which, with the number of orphans
\* bounded, leaves none of them running for ever), however many times main
\* reconnects.
C18_NoMonitorLeak ==
    /\ []<>~(sess.done = "closed" /\ Running(sess))
    /\ \/ []<>(orphans = EmptyBag)
       \/ []<><<BagCardinality(orphans') < BagCardinality(orphans)>>_vars

\* C18 witness: a Session has ended with a read error and the supervisor is
\* back at Dial with every keepAlive returned
C18_Witness ==
    /\ supPc = "dial" /\ err \in ReadErrors
    /\ sess.done = "closed" /\ sess.monPc = "stopped"
    /\ orphans = EmptyBag

\* C19: reading and dispatching are strictly sequential within a Session.
\* At most one request is in flight, and only while the read loop waits for
\* its answer; it is the request of the Command read last.  From the
\* ReadJSON that returned a Command until sendHTTPRequest has returned, the
\* loop reads nothing (cmd stays, the loop is nowhere but in the dispatch).
\* A request is sent only when none is in flight, and for the Command just
\* read: Commands go out in the order they came in.
C19_ReadDispatchSequential ==
    /\ [](request # NoRequest => (supPc = "await" /\ request = ApiURL(cmd)))
    /\ [][/\ supPc \in {"dispatch", "await"}
                => (supPc' \in {"dispatch", "await", "logged"} /\ cmd' = cmd)
          /\ (supPc = "logged" /\ supPc' # "logged")
                => (supPc' = "read" /\ request = NoRequest)
          /\ (request' # NoRequest /\ request' # request)
                => (request = NoRequest /\ supPc = "dispatch"
                      /\ request' = ApiURL(cmd))]_vars

\* C19 witness: a request is in flight and a frame for the Session has
\* arrived meanwhile; it waits unread
C19_Witness ==
    supPc = "await" /\ request = ApiURL(cmd) /\ sess.pongs > 0

====
